---- MODULE Spec2Model ----
(***************************************************************************)
(* Sliding-window-counter rate limiter of go-web-concepts:                 *)
(*   internal/rate_limiter/rate.go        AllowRequest, Middleware         *)
(*   internal/rate_limiter_store/redis.go Get, Set, generateKey(Matcher)   *)
(*   main.go                              the configuration                *)
(* Request handlers run concurrently; every backend command (SCAN, GET,     *)
(* INCR, EXPIRE) is one atomic step of the store and may fail.             *)
(* Strings are sequences of one-character strings.  Identifiers are drawn  *)
(* from the alphabet letters, digits, "/", "#", "*", "?".                  *)
(***************************************************************************)
EXTENDS Integers, Sequences, FiniteSets, Bags, TLC

\* ------------------------------------------------------------------ bounds
\* number of request handlers that run concurrently
NProc == 2
\* AllowRequest calls on one key in the single-key runs
MaxCalls == 5
\* the clock stops here (ticks since the Unix epoch)
MaxTime == 3
\* clock resolution: ticks per second
TicksPerSecond == 2
\* MaxRequests of the rate-limited endpoint of the model's configuration
MaxReq == 2
\* TimeWindow of that endpoint, in seconds
WindowSecs == 1
\* SlidingWindowInterval of that endpoint, in seconds
IntervalSecs == 1
\* DefaultEndpointConfig, scaled: MaxRequests, TimeWindow and
\* SlidingWindowInterval in seconds; the window has several intervals and
\* outlasts the clock
DefaultMaxReq == 3
DefaultWindowSecs == 2
DefaultIntervalSecs == 1
\* the largest scanCount (keys per SCAN batch) tried
MaxScanCount == 2
\* how many times more than once a scan may yield keys it has yielded
MaxDup == 1


\* ----------------------------------------------------------------- strings
Join3(a, b, c) == a \o <<"#">> \o b \o <<"#">> \o c

Digit(d) == CASE d = 0 -> "0" [] d = 1 -> "1" [] d = 2 -> "2" [] d = 3 -> "3"
              [] d = 4 -> "4" [] d = 5 -> "5" [] d = 6 -> "6" [] d = 7 -> "7"
              [] d = 8 -> "8" [] OTHER -> "9"

RECURSIVE DecNat(_)
DecNat(n) == IF n < 10 THEN <<Digit(n)>> ELSE DecNat(n \div 10) \o <<Digit(n % 10)>>

\* fmt's %d of an integer
FormatInt(n) == IF n < 0 THEN <<"-">> \o DecNat(0 - n) ELSE DecNat(n)

\* Redis glob matching (SCAN ... MATCH pattern) of a whole key, for patterns
\* over the model's alphabet: "*" any run of characters, "?" any one
\* character, "\" takes the next pattern character literally (a last "\" is
\* itself); the alphabet has no "[" and no "]"
RECURSIVE GlobMatch(_, _)
GlobMatch(p, s) ==
    IF p = <<>> THEN s = <<>>
    ELSE IF Head(p) = "*"
         THEN GlobMatch(Tail(p), s) \/ (s # <<>> /\ GlobMatch(p, Tail(s)))
    ELSE IF s = <<>> THEN FALSE
    ELSE IF Head(p) = "?" THEN GlobMatch(Tail(p), Tail(s))
    ELSE IF Head(p) = "\\" /\ Len(p) >= 2
         THEN p[2] = Head(s) /\ GlobMatch(Tail(Tail(p)), Tail(s))
    ELSE IF Head(p) = Head(s) THEN GlobMatch(Tail(p), Tail(s))
    ELSE FALSE

\* -------------------------------------------------------------------- time
\* time.Time.Truncate rounds down to a multiple of d since Go's zero time,
\* 719162 days before the Unix epoch; d <= 0 returns t unchanged
ZeroOffset(d) == (((((719162 % d) * (86400 % d)) % d) * (TicksPerSecond % d))) % d

Truncate(t, d) == IF d <= 0 THEN t ELSE t - ((t + ZeroOffset(d)) % d)

\* time.Time.Unix: whole seconds since the epoch
Unix(t) == t \div TicksPerSecond

\* int(ttl.Seconds()): float64 seconds cut toward zero
TtlSeconds(ttl) == IF ttl >= 0 THEN ttl \div TicksPerSecond
                   ELSE 0 - ((0 - ttl) \div TicksPerSecond)

\* ----------------------------------------------------------- key derivation
RateLimiterKey(u, e) == [UserId |-> u, Endpoint |-> e]

generateKeyMatcher(key) == Join3(key.UserId, key.Endpoint, <<"*">>)

generateKey(key, timestampWindow) ==
    Join3(key.UserId, key.Endpoint, FormatInt(Unix(timestampWindow)))

\* ---------------------------------------------------------- configuration
\* endpoint identifiers (the host's sanitizePath yields "/" + first segment)
Root == <<"/">>
Ping == <<"/", "p">>
Home == <<"/", "h">>

\* caller identities (the X-Forwarded-For header, else the peer address)
Alice == <<"a">>
Star == <<"*">>
AlicePing == <<"a", "#", "/", "p">>
Backslash == <<"\\">>

\* the identities of the model: a plain one, and those holding a glob
\* character, the key delimiter, the glob escape
Identities == {Alice, Star, AlicePing, Backslash}
Endpoints == {Root, Ping, Home}
Keys == {RateLimiterKey(u, e) : u \in Identities, e \in Endpoints}

EndpointConfig(m, w, i) ==
    [MaxRequests |-> m, TimeWindow |-> w, SlidingWindowInterval |-> i]

DefaultEndpointConfig ==
    EndpointConfig(DefaultMaxReq, DefaultWindowSecs * TicksPerSecond,
                   DefaultIntervalSecs * TicksPerSecond)

\* main's RateLimiterConfig, scaled: "/" with the default entry, "/ping" with
\* its own; Home has no entry
MainConfig ==
    (Root :> DefaultEndpointConfig)
        @@ (Ping :> EndpointConfig(MaxReq, WindowSecs * TicksPerSecond,
                                   IntervalSecs * TicksPerSecond))

VARIABLES
    now,       \* the wall clock, ticks since the Unix epoch
    store,     \* Redis: key string -> [cnt, ttl, exp] and history [born, by]
    config,    \* rateLimiter.config, fixed at construction
    calls,     \* the requests the handlers are serving (a bag of calls)
    started,   \* history: rate-limited AllowRequest calls begun, per key
    quiet,     \* history: 0 until AllowRequest returns false, then 1 + the
               \* ticks since with no request made or inside AllowRequest
    lapsed,    \* history: some bucket has expired or been deleted
    resp       \* what the host pipeline did with the request served last

vars == <<now, store, config, calls, started, quiet, lapsed, resp>>

\* ------------------------------------------------------------------- Redis
\* variant with a slip: the bucket is SET to 1 instead of incremented
IncrSets(s, k, t, key) ==
    IF k \in DOMAIN s THEN [s EXCEPT ![k].cnt = 1, ![k].by = @ \cup {key}]
    ELSE s @@ (k :> [cnt |-> 1, ttl |-> FALSE, exp |-> 0, born |-> t,
                     by |-> {key}])

\* INCR: a missing key counts from 0 and is created without expiry.
\* History: born, the time t of the creating INCR; by, the RateLimiterKeys
\* whose Set incremented the bucket
Incr(s, k, t, key) ==
    IF k \in DOMAIN s THEN [s EXCEPT ![k].cnt = @ + 1, ![k].by = @ \cup {key}]
    ELSE s @@ (k :> [cnt |-> 1, ttl |-> FALSE, exp |-> 0, born |-> t,
                     by |-> {key}])

\* EXPIRE k secs at time t: a timeout <= 0 deletes the key; a missing key is
\* left missing
Expire(s, k, secs, t) ==
    IF k \notin DOMAIN s THEN s
    ELSE IF secs <= 0 THEN [x \in DOMAIN s \ {k} |-> s[x]]
    ELSE [s EXCEPT ![k].ttl = TRUE, ![k].exp = t + secs * TicksPerSecond]

\* the keys Redis still holds at time t
Live(s, t) == [k \in {x \in DOMAIN s : ~s[x].ttl \/ s[x].exp > t} |-> s[k]]

RECURSIVE SumCnt(_, _)
SumCnt(s, ks) ==
    IF ks = {} THEN 0
    ELSE LET k == CHOOSE x \in ks : TRUE IN s[k].cnt + SumCnt(s, ks \ {k})

\* the keys SCAN MATCH generateKeyMatcher(key) yields
Scan(s, key) == {k \in DOMAIN s : GlobMatch(generateKeyMatcher(key), k)}

\* redis.Get on a store that nothing else touches meanwhile: scan, GET each
\* key once, sum
Get(s, key) == SumCnt(s, Scan(s, key))

\* the counter GET k reads, 0 for a key Redis does not hold
Counter(s, k) == IF k \in DOMAIN s THEN s[k].cnt ELSE 0

\* the batches of at most scanCount keys in which SCAN returns the keys ys
RECURSIVE Batches(_, _)
Batches(ys, scanCount) ==
    IF Len(ys) <= scanCount THEN <<ys>>
    ELSE <<SubSeq(ys, 1, scanCount)>>
            \o Batches(SubSeq(ys, scanCount + 1, Len(ys)), scanCount)

\* the keys s.Next yields one by one: batch after batch
RECURSIVE Yield(_)
Yield(bs) == IF bs = <<>> THEN <<>> ELSE Head(bs) \o Yield(Tail(bs))

\* the orders in which a scan may yield the keys ks: every key at least
\* once, at most MaxDup yields more than there are keys
ScanOrders(ks) ==
    {ys \in UNION {[1..n -> ks] :
                     n \in Cardinality(ks)..(Cardinality(ks) + MaxDup)} :
        {ys[j] : j \in DOMAIN ys} = ks}

\* the loop of redis.Get over the keys the scanner yields: a key in found
\* is skipped, any other is read with GET, added to count and to found
RECURSIVE GetLoop(_, _, _, _)
GetLoop(s, ys, found, count) ==
    IF ys = <<>> THEN count
    ELSE IF Head(ys) \in found THEN GetLoop(s, Tail(ys), found, count)
    ELSE GetLoop(s, Tail(ys), found \cup {Head(ys)},
                 count + Counter(s, Head(ys)))

\* history: what GET k adds to Get's count when the buckets that Sets of other
\* keys wrote are left out
OwnCounter(s, k, key) ==
    IF k \in DOMAIN s /\ s[k].by = {key} THEN s[k].cnt ELSE 0

\* the bucket redis.Set increments
BucketKey(key, timestamp, windowInterval) ==
    generateKey(key, Truncate(timestamp, windowInterval))

\* redis.Set sets the TTL when the increment created the bucket
IsNewBucket(count) == count = 1

\* ------------------------------------------------------------ rate limiter
ZeroConfig == EndpointConfig(0, 0, 0)

\* variant with a slip: an endpoint without an entry gets a default entry
LookupOrDefault(e) ==
    IF e \in DOMAIN config THEN [ok |-> TRUE, conf |-> config[e]]
    ELSE [ok |-> TRUE, conf |-> EndpointConfig(MaxReq, TicksPerSecond, TicksPerSecond)]

\* conf, ok := rl.config[endpoint]
Lookup(e) ==
    IF e \in DOMAIN config THEN [ok |-> TRUE, conf |-> config[e]]
    ELSE [ok |-> FALSE, conf |-> ZeroConfig]

\* variant with a slip: the threshold off by one
ShouldRecordOffByOne(count, maxRequests) == count = 0 \/ count <= maxRequests

\* count == 0 || count < int32(conf.MaxRequests): record and admit
ShouldRecord(count, maxRequests) == count = 0 \/ count < maxRequests

\* variant with a slip: a failed Get rejects the request (fail-closed)
OnGetErrorClosed == FALSE

\* what AllowRequest returns when store.Get / store.Set returned an error
OnGetError == TRUE
OnSetError == TRUE

BoolStr(b) == IF b THEN "true" ELSE "false"

NoKey == <<>>

\* a request entering AllowRequest.  gets, sets: the store calls made; over:
\* Get's count was neither 0 nor below MaxRequests.  Inside redis.Get: k, the
\* key the scanner yielded last (NoKey once it is read); found and count, as
\* in the code.  History: early, the call is one of the first MaxRequests
\* begun on its key; lull, it began after a refusal and more than TimeWindow
\* without any request; must, the keys that matched when the scan began and
\* are not yet yielded; own, count without the buckets of other keys, and
\* swayed, own would have decided otherwise; hi, the largest aggregate the
\* key had at any instant of the Get, and torn, Get's count was above it;
\* scanErr, the key scan of its Get failed.  routed: the request's method
\* and path have a route in main
NewCall(u, e, r) ==
    [pc |-> "get", userId |-> u, endpoint |-> e, routed |-> r,
     curTimeStamp |-> 0,
     over |-> FALSE, ret |-> "none", gets |-> 0, sets |-> 0,
     getErr |-> FALSE, setErr |-> FALSE, early |-> FALSE, lull |-> FALSE,
     swayed |-> FALSE, scanErr |-> FALSE,
     k |-> NoKey, found |-> {}, count |-> 0,
     must |-> {}, own |-> 0, hi |-> 0, torn |-> FALSE]

KeyOf(c) == RateLimiterKey(c.userId, c.endpoint)
ConfOf(c) == Lookup(c.endpoint).conf

RECURSIVE SumFn(_, _)
SumFn(f, ks) ==
    IF ks = {} THEN 0
    ELSE LET k == CHOOSE x \in ks : TRUE IN f[k] + SumFn(f, ks \ {k})

TotalStarted == SumFn(started, Keys)

\* the requests being served, and those inside AllowRequest
Serving == BagToSet(calls)
InFlight == {c \in Serving : c.pc # "done"}

\* the longest TimeWindow configured: the silence is counted up to one tick
\* more
MaxWindow ==
    LET ws == {config[e].TimeWindow : e \in DOMAIN config}
    IN CHOOSE w \in ws : \A x \in ws : x <= w

TypeOK ==
    /\ now \in 0..MaxTime
    /\ BagCardinality(calls) <= NProc
    /\ \A c \in Serving : c.pc \in {"get", "read", "incr", "expire", "done"}
    /\ \A k \in Keys : started[k] >= 0
    /\ \A k \in DOMAIN store : store[k].cnt >= 1
    /\ quiet \in 0..(MaxWindow + 2)
    /\ lapsed \in BOOLEAN
    /\ resp.status \in {0, 200, 404, 429}

\* ------------------------------------------------------- the host pipeline
\* the endpoints of the routes main registers (GET "/ping", GET "/")
Routes == {Ping, Root}

\* whether a request on endpoint e can have a route: the sanitizer sends
\* paths and methods without route ("/ping/x", POST "/ping") to the endpoints
\* of Routes too
Routed(e) == IF e \in Routes THEN BOOLEAN ELSE {FALSE}

\* the request GET e has a route iff main registered one
GetRoute(e) == e \in Routes

\* the handler chain of a request: h.Use(rateLimiter.Middleware), then the
\* route's handler if the request has a route; index counts from 1
Handlers(routed) ==
    IF routed THEN <<"Middleware", "downstream">> ELSE <<"Middleware">>

\* the index of the chain at which no handler is left to run
AbortIndex == 63

\* variant with a slip: Abort leaves the chain where it is
AbortStays(index) == index

\* c.Abort(): the index of the chain jumps past every handler
Abort(index) == AbortIndex

\* c.Next(ctx): the handlers of the chain after index run one after the other
RECURSIVE CNext(_, _)
CNext(chain, index) ==
    IF index + 1 > Len(chain) THEN <<>>
    ELSE <<chain[index + 1]>> \o CNext(chain, index + 1)

NoResponse ==
    [allowed |-> "none", status |-> 0, body |-> "", ran |-> <<>>,
     rest |-> <<>>]

\* Middleware (the chain's handler 1) once AllowRequest has returned allowed:
\* on false c.JSON(429, error) and c.Abort(), then in both cases c.Next(ctx);
\* a downstream handler that runs answers 200, a request without route that
\* is let through keeps the host's 404.  rest: the handlers after Middleware
Respond(allowed, routed) ==
    LET rejected == allowed = "false"
        chain == Handlers(routed)
        index == IF rejected THEN Abort(1) ELSE 1
        ran == CNext(chain, index)
    IN [allowed |-> allowed,
        status |-> IF ran # <<>> THEN 200 ELSE IF rejected THEN 429 ELSE 404,
        body |-> IF ran # <<>> THEN "downstream"
                 ELSE IF rejected THEN "Rate limit exceeded"
                 ELSE "404 page not found",
        ran |-> ran,
        rest |-> Tail(chain)]

\* the state after NewRateLimiter(cfg, store, sanitizePath), Redis empty
InitWith(cfg) ==
    /\ now = 0
    /\ store = <<>>
    /\ config = cfg
    /\ calls = EmptyBag
    /\ started = [k \in Keys |-> 0]
    /\ quiet = 0
    /\ lapsed = FALSE
    /\ resp = NoResponse

Init == InitWith(MainConfig)

\* the request c of some handler moves on as d
Step(c, d) == calls' = (calls (-) SetToBag({c})) (+) SetToBag({d})

\* AllowRequest returns b to the middleware
Return(c, b) == [c EXCEPT !.pc = "done", !.ret = BoolStr(b)]

\* Middleware calls AllowRequest on a free handler for a request of user u
\* on endpoint e, r telling whether it has a route; its entry: the
\* configuration lookup and time.Now().  At most budget calls on rate-limited
\* endpoints are made.
AllowRequest(e, u, r, budget) ==
    /\ BagCardinality(calls) < NProc
    /\ LET k == RateLimiterKey(u, e)
           c == NewCall(u, e, r)
       IN IF ~Lookup(e).ok
          THEN /\ calls' = calls (+) SetToBag({Return(c, TRUE)})
               /\ UNCHANGED <<started, quiet>>
          ELSE /\ TotalStarted < budget
               /\ calls' = calls (+) SetToBag({
                     [c EXCEPT !.curTimeStamp = now,
                               !.early = started[k] < Lookup(e).conf.MaxRequests,
                               !.lull = quiet > Lookup(e).conf.TimeWindow + 1]})
               /\ started' = [started EXCEPT ![k] = @ + 1]
               /\ quiet' = 0
    /\ UNCHANGED <<now, store, config, lapsed, resp>>

Max(a, b) == IF a >= b THEN a ELSE b

\* history: a call inside redis.Get notes the aggregate its key has in s, and
\* the keys of must that s no longer holds: the scan owes them nothing
Noted(r, s) ==
    IF r.pc \in {"get", "read"} /\ r.gets = 1
    THEN [r EXCEPT !.hi = Max(@, Get(s, KeyOf(r))),
                   !.must = @ \cap DOMAIN s]
    ELSE r

\* the calls B, each having noted s
NotedBag(B, s) ==
    LET S == BagToSet(B)
    IN [x \in {Noted(r, s) : r \in S} |->
            SumFn(B, {r \in S : Noted(r, s) = x})]

\* the calls B once keys have left the store, which is now s (no aggregate
\* has grown): as they were if s holds every key their scans still owe
Kept(B, s) ==
    IF \A r \in BagToSet(B) : r.must \subseteq DOMAIN s THEN B
    ELSE NotedBag(B, s)

\* the request c moves on as d with an INCR that leaves the store as s
StepNoting(c, d, s) ==
    calls' = NotedBag(calls (-) SetToBag({c}), s) (+) SetToBag({d})

\* history of a Get whose scan begins with this step: the keys that match now,
\* the aggregate now
MustOf(c) == IF c.gets = 0 THEN Scan(store, KeyOf(c)) ELSE c.must
HiOf(c) == IF c.gets = 0 THEN Get(store, KeyOf(c)) ELSE c.hi

\* redis.Get has returned: its locals are gone
Leave(c) ==
    [c EXCEPT !.k = NoKey, !.found = {}, !.count = 0, !.must = {}, !.own = 0,
              !.hi = 0]

\* redis.Get, for s.Next(ctx, &k): a SCAN command yields a key that is not in
\* found (a key in found is skipped by the loop and changes nothing).  A scan
\* takes as many SCAN commands as Redis likes, other commands fall between
\* them; a key that appears during the scan may be yielded
StoreScan(c) ==
    /\ c.pc = "get"
    /\ \E k \in Scan(store, KeyOf(c)) \ c.found :
          Step(c, [c EXCEPT !.pc = "read", !.gets = 1, !.k = k,
                            !.must = MustOf(c) \ {k}, !.hi = HiOf(c)])
    /\ UNCHANGED <<now, store, config, started, quiet, lapsed, resp>>

\* redis.Get, the loop body: GET k, count += c, found[k]
StoreRead(c) ==
    /\ c.pc = "read"
    /\ Step(c, [c EXCEPT !.pc = "get", !.k = NoKey,
                         !.found = @ \cup {c.k},
                         !.count = @ + Counter(store, c.k),
                         !.own = @ + OwnCounter(store, c.k, KeyOf(c))])
    /\ UNCHANGED <<now, store, config, started, quiet, lapsed, resp>>

\* rl.store.Get has returned c.count with a nil error (failed tells whether
\* its scan failed): AllowRequest goes on to Set or returns false
Decide(c, failed) ==
    LET n == c.count
        m == ConfOf(c).MaxRequests
        d == Leave([c EXCEPT !.gets = 1,
                             !.over = n # 0 /\ n >= m,
                             !.swayed = ShouldRecord(n, m) #
                                        ShouldRecord(c.own, m),
                             !.torn = n > HiOf(c),
                             !.scanErr = failed])
    IN IF ShouldRecord(n, m)
       THEN Step(c, [d EXCEPT !.pc = "incr"]) /\ UNCHANGED quiet
       ELSE Step(c, Return(d, FALSE)) /\ quiet' = 1

\* redis.Get: the scan is over (SCAN has returned its last cursor), s.Next
\* returns false and Get returns count.  A scan yields every key that was
\* there all the time from its first SCAN to its last; a key that was gone
\* meanwhile may be yielded or not
StoreGet(c) ==
    /\ c.pc = "get"
    /\ MustOf(c) = {}
    /\ Decide(c, FALSE)
    /\ UNCHANGED <<now, store, config, started, lapsed, resp>>

\* redis.Get when a SCAN command fails (backend failure, cancelled context):
\* s.Next returns false, the loop ends, the scanner's error is never read
\* (no s.Close()), and Get returns the count of the keys read so far with a
\* nil error
StoreGetScanError(c) ==
    /\ c.pc = "get"
    /\ Decide(c, TRUE)
    /\ UNCHANGED <<now, store, config, started, lapsed, resp>>

\* redis.Get when the GET of a key fails (backend failure, cancelled
\* context): Get returns the error
StoreGetError(c) ==
    /\ c.pc = "read"
    /\ Step(c, Return(Leave([c EXCEPT !.getErr = TRUE]), OnGetError))
    /\ UNCHANGED <<now, store, config, started, quiet, lapsed, resp>>

\* redis.Set: INCR of the bucket
SetIncr(c) ==
    /\ c.pc = "incr"
    /\ LET d == [c EXCEPT !.sets = @ + 1]
           k == BucketKey(KeyOf(c), c.curTimeStamp, ConfOf(c).SlidingWindowInterval)
           s == Incr(store, k, now, KeyOf(c))
       IN /\ store' = s
          /\ IF IsNewBucket(s[k].cnt)
             THEN StepNoting(c, [d EXCEPT !.pc = "expire"], s)
             ELSE StepNoting(c, Return(d, TRUE), s)
    /\ UNCHANGED <<now, config, started, quiet, lapsed, resp>>

\* redis.Set: the INCR failed
SetIncrError(c) ==
    /\ c.pc = "incr"
    /\ Step(c, Return([c EXCEPT !.sets = @ + 1, !.setErr = TRUE], OnSetError))
    /\ UNCHANGED <<now, store, config, started, quiet, lapsed, resp>>

\* redis.Set: EXPIRE of the bucket the INCR created
SetExpire(c) ==
    /\ c.pc = "expire"
    /\ LET k == BucketKey(KeyOf(c), c.curTimeStamp, ConfOf(c).SlidingWindowInterval)
           s == Expire(store, k, TtlSeconds(ConfOf(c).TimeWindow), now)
       IN /\ store' = s
          /\ lapsed' = (lapsed \/ DOMAIN s # DOMAIN store)
          /\ calls' = Kept(calls (-) SetToBag({c}), s)
                          (+) SetToBag({Return(c, TRUE)})
    /\ UNCHANGED <<now, config, started, quiet, resp>>

\* redis.Set: the EXPIRE failed
SetExpireError(c) ==
    /\ c.pc = "expire"
    /\ Step(c, Return([c EXCEPT !.setErr = TRUE], OnSetError))
    /\ UNCHANGED <<now, store, config, started, quiet, lapsed, resp>>

\* Middleware after AllowRequest: the 429 or the downstream handlers; the
\* handler is free for the next request
Middleware(c) ==
    /\ c.pc = "done"
    /\ calls' = calls (-) SetToBag({c})
    /\ resp' = Respond(c.ret, c.routed)
    /\ UNCHANGED <<now, store, config, started, quiet, lapsed>>

\* the clock advances; Redis drops the keys whose expiry has come
Tick ==
    /\ now < MaxTime
    /\ now' = now + 1
    /\ store' = Live(store, now + 1)
    /\ calls' = Kept(calls, Live(store, now + 1))
    /\ lapsed' = (lapsed \/ DOMAIN store' # DOMAIN store)
    /\ quiet' = IF quiet = 0 THEN 0
                ELSE IF InFlight # {} THEN 1
                ELSE IF quiet <= MaxWindow + 1 THEN quiet + 1 ELSE quiet
    /\ UNCHANGED <<config, started, resp>>

\* ---------------------------------------------------------- specifications
\* one key: concurrent handlers, a store of which every command may fail, the
\* clock
Next ==
    \/ AllowRequest(Ping, Alice, GetRoute(Ping), MaxCalls)
    \/ \E c \in Serving : StoreScan(c)
    \/ \E c \in Serving : StoreRead(c)
    \/ \E c \in Serving : StoreGet(c)
    \/ \E c \in Serving : StoreGetScanError(c)
    \/ \E c \in Serving : StoreGetError(c)
    \/ \E c \in Serving : SetIncr(c)
    \/ \E c \in Serving : SetIncrError(c)
    \/ \E c \in Serving : SetExpire(c)
    \/ \E c \in Serving : SetExpireError(c)
    \/ \E c \in Serving : Middleware(c)
    \/ Tick

Spec == Init /\ [][Next]_vars

\* any callers on "/ping" and on the endpoint without entry, at one instant:
\* concurrent handlers, a store of which every command may fail
NextUsers ==
    \/ \E e \in {Ping, Home}, u \in Identities :
          AllowRequest(e, u, GetRoute(e), MaxReq + 1)
    \/ \E c \in Serving : StoreScan(c)
    \/ \E c \in Serving : StoreRead(c)
    \/ \E c \in Serving : StoreGet(c)
    \/ \E c \in Serving : StoreGetScanError(c)
    \/ \E c \in Serving : StoreGetError(c)
    \/ \E c \in Serving : SetIncr(c)
    \/ \E c \in Serving : SetIncrError(c)
    \/ \E c \in Serving : SetExpire(c)
    \/ \E c \in Serving : SetExpireError(c)
    \/ \E c \in Serving : Middleware(c)

SpecUsers == Init /\ [][NextUsers]_vars

\* no key but (u, e) has made a rate-limited call
OnlyKey(u, e) == \A k \in Keys \ {RateLimiterKey(u, e)} : started[k] = 0

\* one user on one rate-limited endpoint, and on the endpoint without entry:
\* strictly sequential requests (each returns before the next starts), a
\* store that never fails, the clock; the user is any identity
NextSeq ==
    \/ \E e \in Endpoints, u \in Identities :
          /\ calls = EmptyBag
          /\ OnlyKey(u, e) \/ e \notin DOMAIN config
          /\ AllowRequest(e, u, GetRoute(e), MaxReq + 2)
    \/ \E c \in Serving : StoreScan(c)
    \/ \E c \in Serving : StoreRead(c)
    \/ \E c \in Serving : StoreGet(c)
    \/ \E c \in Serving : SetIncr(c)
    \/ \E c \in Serving : SetExpire(c)
    \/ \E c \in Serving : Middleware(c)
    \/ Tick

SpecSeq == Init /\ [][NextSeq]_vars

\* the configurations NewRateLimiter is given in SpecConf (it accepts any):
\* TimeWindow unset (0) or WindowSecs, SlidingWindowInterval unset (0), one
\* tick (below a second) or IntervalSecs
Configs ==
    {Ping :> EndpointConfig(MaxReq, w, i) :
        w \in {0, WindowSecs * TicksPerSecond},
        i \in {0, 1, IntervalSecs * TicksPerSecond}}

InitConf == \E cfg \in Configs : InitWith(cfg)

\* one user under any of Configs: AllowRequest calls strictly sequential (the
\* middleware of an earlier request may still be running), a store that never
\* fails, the clock
NextConf ==
    \/ InFlight = {} /\ AllowRequest(Ping, Alice, GetRoute(Ping), MaxReq + 2)
    \/ \E c \in Serving : StoreScan(c)
    \/ \E c \in Serving : StoreRead(c)
    \/ \E c \in Serving : StoreGet(c)
    \/ \E c \in Serving : SetIncr(c)
    \/ \E c \in Serving : SetExpire(c)
    \/ \E c \in Serving : Middleware(c)
    \/ Tick

SpecConf == InitConf /\ [][NextConf]_vars

\* one key, fewer calls: concurrent handlers, a store of which every command
\* may fail, the clock
NextFail ==
    \/ AllowRequest(Ping, Alice, GetRoute(Ping), MaxReq + 1)
    \/ \E c \in Serving : StoreScan(c)
    \/ \E c \in Serving : StoreRead(c)
    \/ \E c \in Serving : StoreGet(c)
    \/ \E c \in Serving : StoreGetScanError(c)
    \/ \E c \in Serving : StoreGetError(c)
    \/ \E c \in Serving : SetIncr(c)
    \/ \E c \in Serving : SetIncrError(c)
    \/ \E c \in Serving : SetExpire(c)
    \/ \E c \in Serving : SetExpireError(c)
    \/ \E c \in Serving : Middleware(c)
    \/ Tick

SpecFail == Init /\ [][NextFail]_vars

\* one key: concurrent handlers, a store that never fails, the clock
NextRel ==
    \/ AllowRequest(Ping, Alice, GetRoute(Ping), MaxReq + 1)
    \/ \E c \in Serving : StoreScan(c)
    \/ \E c \in Serving : StoreRead(c)
    \/ \E c \in Serving : StoreGet(c)
    \/ \E c \in Serving : SetIncr(c)
    \/ \E c \in Serving : SetExpire(c)
    \/ \E c \in Serving : Middleware(c)
    \/ Tick

SpecRel == Init /\ [][NextRel]_vars

\* one caller, requests with a route and without one on "/ping" and on the
\* endpoint without entry, at one instant: concurrent handlers, a reliable
\* store
NextRoute ==
    \/ \E e \in {Ping, Home} : \E r \in Routed(e) :
          AllowRequest(e, Alice, r, MaxReq + 1)
    \/ \E c \in Serving : StoreScan(c)
    \/ \E c \in Serving : StoreRead(c)
    \/ \E c \in Serving : StoreGet(c)
    \/ \E c \in Serving : SetIncr(c)
    \/ \E c \in Serving : SetExpire(c)
    \/ \E c \in Serving : Middleware(c)

SpecRoute == Init /\ [][NextRoute]_vars

\* ------------------------------------------------------------------ claims
Done == {c \in Serving : c.pc = "done"}
Limited(c) == c.endpoint \in DOMAIN config
\* no other key has made a rate-limited call
OnlyCaller(c) == \A k \in Keys \ {KeyOf(c)} : started[k] = 0

\* C1: with one user, strictly sequential calls, a store that never fails and
\* no bucket expired, a call returns true exactly when it is one of the first
\* MaxRequests calls on its key: the first N are admitted, the (N+1)th is not.
C1_SequentialQuota ==
    \A c \in Done :
        (Limited(c) /\ OnlyCaller(c)) =>
            /\ c.early => c.ret = "true"
            /\ (~c.early /\ ~lapsed) => c.ret = "false"

\* C2: a call on an endpoint without a configuration entry returns true at
\* once and makes no Get and no Set, whatever calls came before and whatever
\* the store holds or answers.
C2_UnconfiguredAdmitted ==
    \A c \in Serving :
        ~Limited(c) => (c.pc = "done" /\ c.ret = "true" /\ c.gets = 0 /\ c.sets = 0)

\* an unconfigured endpoint admitted a caller whose quota on the rate-limited
\* endpoint is used up
C2_Witness ==
    \E c \in Done :
        /\ ~Limited(c) /\ c.ret = "true"
        /\ Get(store, RateLimiterKey(c.userId, Ping)) >= MaxReq

\* C3: every store error becomes a permissive decision: a failed Get returns
\* true without a Set, a failed Set returns true, and false is returned only
\* after a Get that succeeded.
C3_FailOpen ==
    \A c \in Done :
        /\ c.getErr => (c.ret = "true" /\ c.sets = 0)
        /\ c.setErr => (c.ret = "true" /\ ~c.getErr)
        /\ c.ret = "false" => (~c.getErr /\ ~c.setErr /\ c.gets = 1)

\* with the quota used up, one call got through on a failed Get while another
\* got through on a failed Set
C3_Witness ==
    /\ \E c \in Done : c.getErr /\ c.ret = "true" /\ Get(store, KeyOf(c)) >= MaxReq
    /\ \E c \in Done : c.setErr /\ c.ret = "true"

\* C4: a call whose Get returned a count that is neither 0 nor below
\* MaxRequests returns false and makes no Set, so it changes no bucket.
C4_RejectedNotRecorded ==
    \A c \in Serving :
        c.over => (c.pc = "done" /\ c.ret = "false" /\ c.sets = 0)

\* a call has been rejected
C4_Witness == \E c \in Done : c.over /\ c.ret = "false" /\ c.sets = 0

\* C5: with at most NProc calls in flight on one key, the aggregate count of
\* the key never exceeds MaxRequests + NProc.
C5_OvershootBounded ==
    \A e \in DOMAIN config :
        Get(store, RateLimiterKey(Alice, e)) <= config[e].MaxRequests + NProc

\* C6: two distinct users have independent counters: every decision is the
\* one Get's count gives without the buckets other users' calls wrote.
C6_UsersIndependent == \A c \in Serving : ~c.swayed

\* the interval windows begun so far: the instants Truncate has sent a
\* timestamp to
WindowsBegun(key) ==
    LET i == config[key.Endpoint].SlidingWindowInterval
    IN Cardinality({Truncate(t, i) : t \in 0..now})

\* C7: the INCR of a Set raises Get's count for its key by exactly one, in the
\* one bucket of the timestamp's window, and the EXPIRE leaves the count as it
\* is; Sets of one window share a bucket: a key never has more buckets than
\* windows have begun.
C7_RoundTrip ==
    [][\A c \in Serving :
          LET key == KeyOf(c)
              k == BucketKey(key, c.curTimeStamp, ConfOf(c).SlidingWindowInterval)
          IN /\ SetIncr(c) =>
                  /\ Get(store', key) = Get(store, key) + 1
                  /\ DOMAIN store' = DOMAIN store \cup {k}
                  /\ Cardinality(Scan(store', key)) <= WindowsBegun(key)
             /\ SetExpire(c) => Get(store', key) = Get(store, key)]_vars

\* C8: once every Set has returned, no bucket contributes to Get after its
\* ttl, the TimeWindow of its endpoint, has elapsed since its creation.
C8_BucketExpires ==
    InFlight = {} =>
        \A k \in DOMAIN store : \A key \in store[k].by :
            now <= store[k].born + config[key.Endpoint].TimeWindow

\* C9: after AllowRequest has returned false, a call that begins after more
\* than TimeWindow without any request made or inside AllowRequest returns
\* true.
C9_QuotaRecovers ==
    \A c \in Done : c.lull => c.ret = "true"

\* C10: the keys generateKeyMatcher(u, e) matches are exactly the bucket keys
\* generateKey produced for (u, e).
C10_KeysAgree ==
    \A key \in Keys :
        Scan(store, key) = {k \in DOMAIN store : store[k].by = {key}}

\* C11: for a SlidingWindowInterval i > 0 and a boundary b of it, a Set with
\* timestamp b - 1 (one unit of time before b) and a Set with timestamp b for
\* the same key increment two different buckets.
C11_BoundaryBuckets ==
    \A c, d \in Serving :
        LET i == ConfOf(d).SlidingWindowInterval
        IN (/\ Limited(c) /\ Limited(d) /\ KeyOf(c) = KeyOf(d)
            /\ c.sets = 1 /\ d.sets = 1
            /\ i > 0 /\ Truncate(d.curTimeStamp, i) = d.curTimeStamp
            /\ c.curTimeStamp = d.curTimeStamp - 1)
           => BucketKey(KeyOf(c), c.curTimeStamp, i)
                # BucketKey(KeyOf(d), d.curTimeStamp, i)

\* C12: whenever a backend operation of Get fails, the scan or a read, Get
\* returns an error and no count: a call whose scan failed has had an error
\* from Get (and so has returned true without a Set).
C12_GetReportsFailure ==
    \A c \in Serving :
        c.scanErr => (c.getErr /\ c.pc = "done" /\ c.sets = 0)

\* C13: a call that had a store command fail under it (as all do once the
\* request's context is cancelled), in Get's scan, in a read or in Set,
\* returns true.
C13_CancelFailOpen ==
    \A c \in Done :
        (c.scanErr \/ c.getErr \/ c.setErr) => c.ret = "true"

\* C14: an endpoint whose TimeWindow or SlidingWindowInterval is unset or
\* <= 0 limits as with the documented defaults (24 hours, 1 minute): within
\* the model's horizon, far inside 24 hours, a sequential call beyond the
\* first MaxRequests of its key is rejected.
C14_DefaultsApplied ==
    \A c \in Done :
        (Limited(c) /\ ~c.early) =>
            /\ ConfOf(c).TimeWindow <= 0 => c.ret = "false"
            /\ (ConfOf(c).SlidingWindowInterval <= 0 /\ ~lapsed)
                   => c.ret = "false"

\* C15: when AllowRequest returned false the middleware answers 429 with the
\* body "Rate limit exceeded" and no downstream handler runs; when it
\* returned true the downstream handlers of the request's chain run (the
\* route's handler; none for a request without route) and no rejection is
\* written.
C15_InterceptionHook ==
    /\ resp.allowed = "false" =>
          (resp.status = 429 /\ resp.body = "Rate limit exceeded"
           /\ resp.ran = <<>>)
    /\ resp.allowed = "true" =>
          (resp.ran = resp.rest /\ resp.status # 429
           /\ resp.body # "Rate limit exceeded")

\* a rejected request whose chain has a downstream handler has been answered
\* while an admitted one is still in the middleware
C15_Witness ==
    /\ resp.allowed = "false" /\ resp.status = 429
    /\ resp.rest = <<"downstream">>
    /\ \E c \in Done : c.ret = "true"

\* C16: concurrent Sets on one bucket lose no update: whatever the
\* interleaving, the INCR of a Set raises its bucket's counter by exactly one
\* and leaves every other bucket as it is, the EXPIRE changes no counter, and
\* a counter is always between 1 and the number of calls made on its key.
C16_NoLostUpdate ==
    [][/\ \A c \in Serving :
            LET k == BucketKey(KeyOf(c), c.curTimeStamp,
                               ConfOf(c).SlidingWindowInterval)
            IN /\ SetIncr(c) =>
                    /\ Counter(store', k) = Counter(store, k) + 1
                    /\ \A x \in DOMAIN store \ {k} :
                           Counter(store', x) = Counter(store, x)
               /\ SetExpire(c) =>
                    \A x \in DOMAIN store' :
                        Counter(store', x) = Counter(store, x)
       /\ \A k \in DOMAIN store' :
            /\ store'[k].cnt >= 1
            /\ store'[k].cnt <= SumFn(started', store'[k].by)]_vars

\* three Sets, two of them concurrent, have incremented one bucket
C16_Witness ==
    \E k \in DOMAIN store :
        /\ store[k].cnt = MaxReq + 1
        /\ \E c \in Done : c.sets = 1 /\ ~c.setErr /\ c.ret = "true"
              /\ k = BucketKey(KeyOf(c), c.curTimeStamp,
                                ConfOf(c).SlidingWindowInterval)

\* C17: Get returns the sum of the counters of the distinct live buckets its
\* pattern matches: the count a Get returns is never above the largest
\* aggregate its key had at any instant of that Get; on the store as Get
\* leaves it the loop gives the sum whatever the scanCount and whatever the
\* order in which the scan yields the keys, repeats included; and the
\* commands of a Get change nothing in the store.
C17_GetSumsDistinct ==
    [][/\ \A c \in BagToSet(calls') : ~c.torn
       /\ \A c \in Serving :
            /\ (StoreScan(c) \/ StoreRead(c) \/ StoreGet(c)) => store' = store
            /\ StoreGet(c) =>
                 \A ys \in ScanOrders(Scan(store, KeyOf(c))) :
                    \A scanCount \in 1..MaxScanCount :
                        GetLoop(store, Yield(Batches(ys, scanCount)), {}, 0)
                          = SumCnt(store, Scan(store, KeyOf(c)))]_vars

\* C18: a request recorded at time t counts in Get's aggregate at every
\* instant of [t, t + TimeWindow - SlidingWindowInterval] and at no instant
\* after t + TimeWindow.  For the request that created a bucket: the bucket
\* does not go before born + TimeWindow - SlidingWindowInterval has passed,
\* and it is gone at every instant after born + TimeWindow.
C18_WindowApproximation ==
    [][\A k \in DOMAIN store : \A key \in store[k].by :
          LET conf == config[key.Endpoint]
          IN /\ k \notin DOMAIN store' =>
                   now' > store[k].born + conf.TimeWindow
                                        - conf.SlidingWindowInterval
             /\ k \in DOMAIN store' =>
                   now' <= store[k].born + conf.TimeWindow]_vars

\* the calls that are inside redis.Set on bucket k
SettingBucket(k) ==
    {c \in InFlight :
        /\ c.pc \in {"incr", "expire"}
        /\ k = BucketKey(KeyOf(c), c.curTimeStamp,
                          ConfOf(c).SlidingWindowInterval)}

\* C19: a bucket on which no Set is in flight has a TTL, also after the
\* EXPIRE of an earlier Set failed.
C19_BucketsHaveTtl ==
    \A k \in DOMAIN store : SettingBucket(k) = {} => store[k].ttl

\* the calls of key k whose INCR this step is
Recording(k) == {c \in Serving : KeyOf(c) = k /\ SetIncr(c)}

====
